---------------------------- MODULE Spec2Model ----------------------------
(***************************************************************************)
(* A model of the collaboration subsystem of src/app.py (PDF Bot): the     *)
(* Streamlit script run (sidebar, upload, page navigation, Save Annotation *)
(* and Send Message handlers), the background WebSocket listener thread    *)
(* and the relay between them.                                             *)
(*                                                                         *)
(* st.session_state is modelled as the set `keys` of the keys present plus *)
(* one variable per key holding its value.  One script run is a sequence   *)
(* of steps of the view (position `vpc`); it is split exactly where the    *)
(* script tests a key shared with the listener thread and then assigns it  *)
(* (lines 324/325 and 511/512), so that the listener's on_message can run  *)
(* between the test and the assignment.  Every button handler is inside    *)
(* one step.  A script run, once started, runs to its end (or to the       *)
(* exception or st.stop() that ends it) before the next one starts.        *)
(*                                                                         *)
(* Texts are sequences of one-character strings, so that str.strip() is    *)
(* computed and not assumed.                                               *)
(***************************************************************************)
EXTENDS Integers, Sequences, FiniteSets, TLC

\* ------------------------------------------------------------------ bounds

\* Largest number of events (annotations saved, chat messages sent, payloads
\* sent by other clients) in one session.
MaxEvents == 2
\* Largest number of relay messages in flight to the listener.
MaxInFlight == 1

\* ------------------------------------------------------------------ texts

Whitespace == {" ", "\t", "\n"}

RECURSIVE LStrip(_)
LStrip(s) ==
    IF s = <<>> THEN <<>>
    ELSE IF Head(s) \in Whitespace THEN LStrip(Tail(s)) ELSE s

RECURSIVE RStrip(_)
RStrip(s) ==
    IF s = <<>> THEN <<>>
    ELSE IF s[Len(s)] \in Whitespace THEN RStrip(SubSeq(s, 1, Len(s) - 1)) ELSE s

\* str.strip()
Strip(s) == RStrip(LStrip(s))

\* A text is blank: empty, or whitespace only.
Blank(s) == \A i \in 1..Len(s) : s[i] \in Whitespace

\* What the user types into selected_text.
SelectedTexts == { <<>>, <<"\t", " ">>, <<"s">> }

\* What the user types into annotation_text: empty, whitespace only, plain,
\* padded.
AnnotationTexts == { <<>>, <<" ">>, <<"a">>, <<" ", "b", " ">> }

\* What the user types into chat_message_input.
ChatTexts == { <<>>, <<" ", "\n">>, <<" ", "h", "i", " ">> }

\* ------------------------------------------------------------------ files

NoFile == [present |-> FALSE, pages |-> 0, ok |-> FALSE]

\* The values time.time() returns in a session, which starts at the first.
ClockReadings == {0, 1}

\* The readings time.time() can return when its last reading was t.
ReadingsFrom(t) == { r \in ClockReadings : r >= t }

\* The page counts of the PDFs the user uploads.
PageCounts == {1, 2}

\* The page indices of those PDFs.
PageIndices == UNION { 0..(n - 1) : n \in PageCounts }

\* The uploads: a PDF of one of these page counts, or a file PyPDF2 cannot
\* read.
Files ==
    { [present |-> TRUE, pages |-> n, ok |-> TRUE] : n \in PageCounts }
      \cup { [present |-> TRUE, pages |-> 0, ok |-> FALSE] }

\* extract_pdf_text: (len(pages_text), success).
ExtractPdfText(file) ==
    IF file.ok THEN [len |-> file.pages, success |-> TRUE]
               ELSE [len |-> 1, success |-> FALSE]



\* ------------------------------------------------------------------ state

VARIABLES
    keys,               \* the keys present in st.session_state
    username,           \* st.session_state.username
    current_page,       \* st.session_state.current_page
    annotations,        \* st.session_state.annotations: page index -> list
    revision_history,   \* st.session_state.revision_history: id -> list
    collab_annotations, \* st.session_state.collab_annotations
    collab_chat,        \* st.session_state.collab_chat
    uploaded_file,      \* the file_uploader's value
    vpc,                \* where the script run stands ("idle": no run)
    rendered,           \* the buttons the latest run has put on the page
    notices,            \* the st.warning/st.error calls of the latest run
    rerun_requested,    \* st.rerun() was called and the rerun has not started
    lstate,             \* the listener thread
    listener_notice,    \* the latest st.error/st.info of the listener thread
    appended_since_notice, \* the listener appended after its latest notice
    relay,              \* payloads the relay has yet to deliver to the listener
    now,                \* the latest value time.time() returned
    created,            \* page index -> number of annotations saved on it
    pub_attempts,       \* number of websocket.create_connection calls
    sent_unstored,      \* ws.send was given an event not yet stored locally
    peer_sent,          \* number of payloads other clients have sent
    listener_starts     \* number of listener threads started

vars == << keys, username, current_page, annotations, revision_history,
           collab_annotations, collab_chat, uploaded_file, vpc, rendered,
           notices, rerun_requested, lstate, listener_notice,
           appended_since_notice, relay, now, created, pub_attempts,
           sent_unstored, peer_sent, listener_starts >>

\* What only the view writes.
viewVars == << username, current_page, annotations, revision_history,
               uploaded_file, vpc, rendered, notices, now, created,
               pub_attempts, sent_unstored, listener_starts >>

\* The state a script run reads and writes, as one record.
Session ==
    [keys |-> keys, username |-> username, current_page |-> current_page,
     annotations |-> annotations, revision_history |-> revision_history,
     collab_annotations |-> collab_annotations, collab_chat |-> collab_chat,
     uploaded_file |-> uploaded_file, vpc |-> vpc, rendered |-> rendered,
     notices |-> notices, rerun_requested |-> rerun_requested,
     lstate |-> lstate, relay |-> relay, now |-> now, created |-> created,
     pub_attempts |-> pub_attempts, sent_unstored |-> sent_unstored,
     listener_starts |-> listener_starts]

\* The state after a step of the script run that ends in `s`.
Install(s) ==
    /\ keys' = s.keys
    /\ username' = s.username
    /\ current_page' = s.current_page
    /\ annotations' = s.annotations
    /\ revision_history' = s.revision_history
    /\ collab_annotations' = s.collab_annotations
    /\ collab_chat' = s.collab_chat
    /\ uploaded_file' = s.uploaded_file
    /\ vpc' = s.vpc
    /\ rendered' = s.rendered
    /\ notices' = s.notices
    /\ rerun_requested' = s.rerun_requested
    /\ lstate' = s.lstate
    /\ relay' = s.relay
    /\ now' = s.now
    /\ created' = s.created
    /\ pub_attempts' = s.pub_attempts
    /\ sent_unstored' = s.sent_unstored
    /\ listener_starts' = s.listener_starts
    /\ UNCHANGED << listener_notice, appended_since_notice, peer_sent >>

EmptyDict == [k \in {} |-> <<>>]

\* dict.get(key): None when the key is absent.
Get(d, k) == IF k \in DOMAIN d THEN d[k] ELSE "None"

\* The session may author or receive one more event.
EventBudget == pub_attempts + peer_sent < MaxEvents

\* ------------------------------------------------------------------ relay

\* json.dumps of an event dict.
Dumps(ev) == [fmt |-> "json", kind |-> "object", val |-> ev]

\* json.loads raises on a payload that is not JSON.
LoadsFails(raw) == raw.fmt # "json"

\* data.get raises AttributeError when the JSON value is not an object.
IsObject(raw) == raw.fmt = "json" /\ raw.kind = "object"

\* What other sessions (or anything else connected to the relay) send.
PeerPayloads ==
    { [fmt |-> "text"],
      [fmt |-> "json", kind |-> "array"],
      Dumps([type |-> "annotation", id |-> <<0, 0>>, page |-> 1,
             selected_text |-> <<"p">>, annotation |-> <<"q">>,
             timestamp |-> 0, user |-> <<"alice">>]),
      Dumps([type |-> "chat", timestamp |-> 0, user |-> <<"alice">>,
             message |-> <<"h", "i">>]),
      Dumps([type |-> "ping", user |-> <<"alice">>]),
      Dumps([user |-> <<"alice">>, message |-> <<"h", "i">>]) }

\* The relay broadcasts to the clients connected when the payload arrives.
Broadcast(q, raw, listening) == IF listening THEN Append(q, raw) ELSE q

\* A publish can be delivered: the listener's queue has room (or it is not
\* connected, and the relay has nobody to deliver to).
RelayHasRoom == lstate # "listening" \/ Len(relay) < MaxInFlight

\* ------------------------------------------------------------------ listener

\* A start_ws_client without its guard.
ShouldStartListenerAlways(ks) == TRUE

\* start_ws_client's guard.
ShouldStartListener(ks) == "ws_client_started" \notin ks

\* A choice that files every message that is not an annotation as chat.
TargetLogChatByDefault(data) ==
    IF Get(data, "type") = "annotation" THEN "collab_annotations"
    ELSE "collab_chat"

\* on_message's choice of the list a parsed message goes to.
TargetLog(data) ==
    IF Get(data, "type") = "annotation" THEN "collab_annotations"
    ELSE IF Get(data, "type") = "chat" THEN "collab_chat"
    ELSE "none"

\* An append that skips an event the list already holds.
LazyAppendDeduplicating(present, log, data) ==
    LET old == IF present THEN log ELSE <<>>
    IN  IF \E i \in 1..Len(old) : old[i] = data THEN old
        ELSE Append(old, data)

\* The list after `if key not in st.session_state: ... = []` and
\* `....append(data)`.
LazyAppend(present, log, data) == Append(IF present THEN log ELSE <<>>, data)

\* A listener thread that an exception in on_message ends.
AfterOnMessageErrorEnding(st) == "ended"

\* The listener thread after on_message caught an exception: run_forever
\* goes on.
AfterOnMessageError(st) == st

\* websocket_listen: the thread connects.
ListenerConnect ==
    /\ lstate = "connecting"
    /\ lstate' = "listening"
    /\ UNCHANGED << keys, collab_annotations, collab_chat, rerun_requested,
                    listener_notice, appended_since_notice, relay, peer_sent,
                    viewVars >>

\* on_error (st.error), then on_close (st.info) as run_forever tears the
\* connection down and returns: the thread ends.
ListenerError ==
    /\ lstate \in {"connecting", "listening"}
    /\ lstate' = "ended"
    /\ listener_notice' = "Closed"
    /\ appended_since_notice' = FALSE
    /\ relay' = <<>>
    /\ UNCHANGED << keys, collab_annotations, collab_chat, rerun_requested,
                    peer_sent, viewVars >>

\* on_close: the server closed the connection; the thread ends.
ListenerClose ==
    /\ lstate = "listening"
    /\ lstate' = "ended"
    /\ listener_notice' = "Closed"
    /\ appended_since_notice' = FALSE
    /\ relay' = <<>>
    /\ UNCHANGED << keys, collab_annotations, collab_chat, rerun_requested,
                    peer_sent, viewVars >>

\* Another client sends a payload; the relay broadcasts it.
PeerPublish(raw) ==
    /\ lstate = "listening"
    /\ Len(relay) < MaxInFlight
    /\ EventBudget
    /\ relay' = Broadcast(relay, raw, TRUE)
    /\ peer_sent' = peer_sent + 1
    /\ UNCHANGED << keys, collab_annotations, collab_chat, rerun_requested,
                    lstate, listener_notice, appended_since_notice, viewVars >>

\* on_message(ws, message) for the payload at the head of the queue.
OnMessage ==
    /\ lstate = "listening"
    /\ relay # <<>>
    /\ relay' = Tail(relay)
    /\ LET raw == Head(relay) IN
       IF LoadsFails(raw) \/ ~IsObject(raw)
       THEN \* except Exception: st.error(...)
            /\ listener_notice' = "MalformedEvent"
            /\ appended_since_notice' = FALSE
            /\ lstate' = AfterOnMessageError(lstate)
            /\ UNCHANGED << keys, collab_annotations, collab_chat,
                            rerun_requested >>
       ELSE LET data == raw.val
                log == TargetLog(data)
            IN  /\ collab_annotations' =
                       IF log = "collab_annotations"
                       THEN LazyAppend(log \in keys, collab_annotations, data)
                       ELSE collab_annotations
                /\ collab_chat' =
                       IF log = "collab_chat"
                       THEN LazyAppend(log \in keys, collab_chat, data)
                       ELSE collab_chat
                /\ keys' = IF log = "none" THEN keys ELSE keys \cup {log}
                /\ appended_since_notice' =
                       (appended_since_notice \/ log # "none")
                /\ rerun_requested' = TRUE
                /\ UNCHANGED << lstate, listener_notice >>
    /\ UNCHANGED << peer_sent, viewVars >>

\* ------------------------------------------------------------------ view

\* A test of the two inputs that does not strip them.
ValidAnnotationInputUnstripped(selected_text, annotation_text) ==
    selected_text # <<>> /\ annotation_text # <<>>

\* The Save Annotation handler's test of its two inputs.
ValidAnnotationInput(selected_text, annotation_text) ==
    Strip(selected_text) # <<>> /\ Strip(annotation_text) # <<>>

\* The Send Message handler's test of its input.
ValidChatInput(chat_message) == Strip(chat_message) # <<>>

\* annotation_data; the id f"{page_index}_{time.time()}" is the pair of its
\* two parts, and its time.time() is a call of its own.
AnnotationData(page_index, selected_text, annotation_text, t_id, t_ts, user) ==
    [id |-> <<page_index, t_id>>, page |-> page_index + 1,
     selected_text |-> selected_text, annotation |-> annotation_text,
     timestamp |-> t_ts, user |-> user, type |-> "annotation"]

\* chat_data
ChatData(chat_message, t, user) ==
    [type |-> "chat", timestamp |-> t, user |-> user,
     message |-> Strip(chat_message)]

\* A "Save locally" that assigns the page's list instead of appending to it.
SaveLocallyOverwriting(anns, page_index, a) ==
    [p \in DOMAIN anns \cup {page_index} |->
        IF p = page_index THEN << a >> ELSE anns[p]]

\* st.session_state.annotations after "Save locally".
SaveLocally(anns, page_index, a) ==
    [p \in DOMAIN anns \cup {page_index} |->
        IF p = page_index
        THEN Append(IF p \in DOMAIN anns THEN anns[p] ELSE <<>>, a)
        ELSE anns[p]]

\* st.session_state.revision_history after "Record revision history".
RecordRevision(rh, a) ==
    [i \in DOMAIN rh \cup {a.id} |-> IF i = a.id THEN << a >> ELSE rh[i]]

\* The Previous Page handler.
PreviousPage(cur) == IF cur > 0 THEN cur - 1 ELSE cur

\* The Next Page handler.
NextPage(cur, len) == IF cur < len - 1 THEN cur + 1 ELSE cur

\* What the except clause around create_connection/send/close reports.
PublishNotice(ok, what) == IF ok THEN {} ELSE {what}

\* The session `s` holds the event in its local state: a chat event in
\* collab_chat, an annotation in its page's list and as the one entry of its
\* revision history.
StoredLocally(s, ev) ==
    IF ev.type = "chat"
    THEN \E i \in 1..Len(s.collab_chat) : s.collab_chat[i] = ev
    ELSE /\ ev.page - 1 \in DOMAIN s.annotations
         /\ \E i \in 1..Len(s.annotations[ev.page - 1]) :
                s.annotations[ev.page - 1][i] = ev
         /\ ev.id \in DOMAIN s.revision_history
         /\ s.revision_history[ev.id] = << ev >>

\* try: create_connection, send, close; except: st.error.
Publish(s, ev, ok, what) ==
    [s EXCEPT !.pub_attempts = @ + 1,
              !.sent_unstored = @ \/ (ok /\ ~StoredLocally(s, ev)),
              !.relay = IF ok THEN Broadcast(@, Dumps(ev),
                                             s.lstate = "listening")
                        ELSE @,
              !.notices = @ \cup PublishNotice(ok, what)]

\* Lines 190-324 of a script run: the sidebar, start_ws_client, the upload's
\* extraction (st.stop() when it fails), the lazy initialisation of the
\* view's own keys, and the test of line 324.  The sidebar's Set Username
\* button is not pressed in the sessions modelled: the username stays the
\* empty string it is initialised to.
ScriptTop(s, file) ==
    LET start   == file.present /\ ShouldStartListener(s.keys)
        pdf     == ExtractPdfText(file)
        tabs    == file.present /\ pdf.success
    IN  [s EXCEPT
          !.uploaded_file = file,
          !.username = IF "username" \in s.keys THEN @ ELSE <<>>,
          !.rendered = {},
          !.rerun_requested = FALSE,
          !.lstate = IF start THEN "connecting" ELSE @,
          !.listener_starts = IF start THEN @ + 1 ELSE @,
          !.keys = @ \cup {"username"}
                     \cup (IF file.present THEN {"ws_client_started"} ELSE {})
                     \cup (IF tabs THEN {"current_page", "annotations",
                                         "revision_history"} ELSE {}),
          !.notices = IF file.present /\ ~pdf.success
                      THEN {"ServiceError:pdf"} ELSE {},
          !.current_page = IF tabs /\ "current_page" \notin s.keys
                           THEN 0 ELSE @,
          !.annotations = IF tabs /\ "annotations" \notin s.keys
                          THEN EmptyDict ELSE @,
          !.revision_history = IF tabs /\ "revision_history" \notin s.keys
                               THEN EmptyDict ELSE @,
          !.vpc = IF ~tabs THEN "idle"
                  ELSE IF "collab_annotations" \in s.keys THEN "l328"
                  ELSE "l325"]

\* Line 325: st.session_state.collab_annotations = [].
Line325(s) ==
    [s EXCEPT !.collab_annotations = <<>>,
              !.keys = @ \cup {"collab_annotations"},
              !.vpc = "l328"]

\* A Save Annotation handler that publishes before it saves locally.
SaveAnnotationPublishingFirst(s, sel, ann, t_id, t_ts, ok) ==
    IF ~ValidAnnotationInput(sel, ann)
    THEN [s EXCEPT !.notices = @ \cup {"ValidationError:annotation"}]
    ELSE LET page_index == s.current_page
             a  == AnnotationData(page_index, sel, ann, t_id, t_ts,
                                  s.username)
             s1 == Publish(s, a, ok, "PublishError:annotation")
         IN  [s1 EXCEPT
                !.now = t_ts,
                !.annotations = SaveLocally(@, page_index, a),
                !.revision_history = RecordRevision(@, a),
                !.created = [p \in DOMAIN s.created |->
                               IF p = page_index THEN s.created[p] + 1
                               ELSE s.created[p]]]

\* The Save Annotation handler (lines 349-379).
SaveAnnotation(s, sel, ann, t_id, t_ts, ok) ==
    IF ~ValidAnnotationInput(sel, ann)
    THEN [s EXCEPT !.notices = @ \cup {"ValidationError:annotation"}]
    ELSE LET page_index == s.current_page
             a  == AnnotationData(page_index, sel, ann, t_id, t_ts,
                                  s.username)
             s1 == [s EXCEPT
                      !.now = t_ts,
                      !.annotations = SaveLocally(@, page_index, a),
                      !.revision_history = RecordRevision(@, a),
                      !.created = [p \in DOMAIN s.created |->
                                     IF p = page_index THEN s.created[p] + 1
                                     ELSE s.created[p]]]
         IN  Publish(s1, a, ok, "PublishError:annotation")

\* Lines 328-511: the navigation buttons, the page lookup of line 341 (an
\* IndexError ends the run), the Save Annotation handler, and the test of
\* line 511.
Tab1(s, button, sel, ann, t_id, t_ts, ok) ==
    LET len == ExtractPdfText(s.uploaded_file).len
        cur == IF button = "Previous Page" THEN PreviousPage(s.current_page)
               ELSE IF button = "Next Page" THEN NextPage(s.current_page, len)
               ELSE s.current_page
    IN  IF cur >= len
        THEN [s EXCEPT !.current_page = cur,
                       !.vpc = "idle",
                       !.rendered = @ \cup {"Previous Page", "Next Page"},
                       !.notices = @ \cup {"IndexError"}]
        ELSE LET s1 == [s EXCEPT
                          !.current_page = cur,
                          !.rendered = @ \cup {"Previous Page", "Next Page",
                                               "Save Annotation"},
                          !.vpc = IF "collab_chat" \in s.keys THEN "l514"
                                  ELSE "l512"]
             IN  IF button = "Save Annotation"
                 THEN SaveAnnotation(s1, sel, ann, t_id, t_ts, ok)
                 ELSE s1

\* Line 512: st.session_state.collab_chat = [].
Line512(s) ==
    [s EXCEPT !.collab_chat = <<>>,
              !.keys = @ \cup {"collab_chat"},
              !.vpc = "l514"]

\* A Send Message handler that appends to the chat log only after the publish
\* went through.
SendMessageAppendingOnSuccess(s, msg, t, ok) ==
    IF ~ValidChatInput(msg)
    THEN [s EXCEPT !.notices = @ \cup {"NameError"}]
    ELSE LET chat_data == ChatData(msg, t, s.username)
             s1 == [s EXCEPT !.now = t,
                             !.collab_chat = IF ok THEN Append(@, chat_data)
                                             ELSE @]
             s2 == Publish(s1, chat_data, ok, "PublishError:chat")
         IN  [s2 EXCEPT !.rerun_requested = TRUE]

\* The body of `if st.button("Send Message")` (lines 526-542): chat_data is
\* bound only when the message is not blank, and line 534 raises NameError
\* when it is not bound.
SendMessage(s, msg, t, ok) ==
    IF ~ValidChatInput(msg)
    THEN [s EXCEPT !.notices = @ \cup {"NameError"}]
    ELSE LET chat_data == ChatData(msg, t, s.username)
             s1 == [s EXCEPT !.now = t,
                             !.collab_chat = Append(@, chat_data)]
             s2 == Publish(s1, chat_data, ok, "PublishError:chat")
         IN  [s2 EXCEPT !.rerun_requested = TRUE]

\* Lines 514-544: the chat history, and the Send Message button with its
\* else branch.
Tab5(s, button, msg, t, ok) ==
    LET s1 == [s EXCEPT !.vpc = "idle",
                        !.rendered = @ \cup {"Send Message"}]
    IN  IF button = "Send Message"
        THEN SendMessage(s1, msg, t, ok)
        ELSE [s1 EXCEPT !.notices = @ \cup {"ValidationError:chat"}]

\* The script from where `s` stands to its end, or to the next assignment of
\* a key the listener shares (line 512).
Rest(s, button, sel, ann, msg, t_id, t_ts, ok) ==
    LET s1 == IF s.vpc = "l328"
              THEN Tab1(s, button, sel, ann, t_id, t_ts, ok) ELSE s
    IN  IF s1.vpc = "l514" THEN Tab5(s1, button, msg, t_ts, ok) ELSE s1

\* One script run, started by the user or by st.rerun(), up to its end or to
\* the first assignment of a key the listener shares (line 325 or 512).
ScriptRun(file, button, sel, ann, msg, t_id, t_ts, ok) ==
    /\ vpc = "idle"
    /\ rerun_requested => (button = "none" /\ file = uploaded_file)
    /\ button \in rendered \cup {"none"}
    /\ Install(Rest(ScriptTop(Session, file), button, sel, ann, msg, t_id,
                    t_ts, ok))

\* The user uploads a file, replaces it, or removes it.
Upload(file) ==
    /\ file # uploaded_file
    /\ ScriptRun(file, "none", <<>>, <<>>, <<>>, now, now, TRUE)

\* A rerun with no button pressed: st.rerun(), or a widget without a handler.
Rerun ==
    ScriptRun(uploaded_file, "none", <<>>, <<>>, <<>>, now, now, TRUE)

ClickPreviousPage ==
    ScriptRun(uploaded_file, "Previous Page", <<>>, <<>>, <<>>, now, now,
              TRUE)

ClickNextPage ==
    ScriptRun(uploaded_file, "Next Page", <<>>, <<>>, <<>>, now, now, TRUE)

\* createAnnotation(selectedText, annotationText, currentPageIndex, username)
ClickSaveAnnotation(sel, ann) ==
    IF ValidAnnotationInput(sel, ann)
    THEN /\ EventBudget
         /\ \E t_id \in ReadingsFrom(now) : \E t_ts \in ReadingsFrom(t_id) :
            \E ok \in BOOLEAN :
               /\ ok => RelayHasRoom
               /\ ScriptRun(uploaded_file, "Save Annotation", sel, ann, <<>>,
                            t_id, t_ts, ok)
    ELSE ScriptRun(uploaded_file, "Save Annotation", sel, ann, <<>>, now,
                   now, TRUE)

\* sendMessage(text, username)
ClickSendMessage(msg) ==
    IF ValidChatInput(msg)
    THEN /\ EventBudget
         /\ \E t \in ReadingsFrom(now) : \E ok \in BOOLEAN :
               /\ ok => RelayHasRoom
               /\ ScriptRun(uploaded_file, "Send Message", <<>>, <<>>, msg,
                            t, t, ok)
    ELSE ScriptRun(uploaded_file, "Send Message", <<>>, <<>>, msg, now, now,
                   TRUE)

\* The run goes on from line 325.  No button of the tabs can have started
\* it: none was on the page before a run passed line 325.
ResumeAt325 ==
    /\ vpc = "l325"
    /\ Install(Rest(Line325(Session), "none", <<>>, <<>>, <<>>, now, now,
                    TRUE))

\* The run goes on from line 512.  Send Message cannot have started it: the
\* button was not on the page before a run passed line 512.
ResumeAt512 ==
    /\ vpc = "l512"
    /\ Install(Rest(Line512(Session), "none", <<>>, <<>>, <<>>, now, now,
                    TRUE))

\* ------------------------------------------------------------------ system

Init ==
    /\ keys = {}
    /\ username = <<>>
    /\ current_page = 0
    /\ annotations = EmptyDict
    /\ revision_history = EmptyDict
    /\ collab_annotations = <<>>
    /\ collab_chat = <<>>
    /\ uploaded_file = NoFile
    /\ vpc = "idle"
    /\ rendered = {}
    /\ notices = {}
    /\ rerun_requested = FALSE
    /\ lstate = "not_started"
    /\ listener_notice = "none"
    /\ appended_since_notice = FALSE
    /\ relay = <<>>
    /\ now = 0
    /\ created = [p \in PageIndices |-> 0]
    /\ pub_attempts = 0
    /\ sent_unstored = FALSE
    /\ peer_sent = 0
    /\ listener_starts = 0

Next ==
    \/ \E file \in Files \cup {NoFile} : Upload(file)
    \/ Rerun
    \/ ClickPreviousPage
    \/ ClickNextPage
    \/ \E sel \in SelectedTexts : \E ann \in AnnotationTexts :
           ClickSaveAnnotation(sel, ann)
    \/ \E msg \in ChatTexts : ClickSendMessage(msg)
    \/ ResumeAt325
    \/ ResumeAt512
    \/ ListenerConnect
    \/ ListenerError
    \/ ListenerClose
    \/ \E raw \in PeerPayloads : PeerPublish(raw)
    \/ OnMessage

Spec == Init /\ [][Next]_vars

\* ---------------------------------------------------------------- properties

\* localAnnotations[p] of the specification: the page's list, empty when the
\* page has no entry.
AnnotationsOf(p) == IF p \in DOMAIN annotations THEN annotations[p] ELSE <<>>

\* The annotations saved in this session, on any page.
SavedAnnotations ==
    { annotations[p][i] : <<p, i>> \in
        { pi \in PageIndices \X (1..MaxEvents) :
            pi[1] \in DOMAIN annotations
            /\ pi[2] <= Len(annotations[pi[1]]) } }

\* C1: every revision history has exactly one entry, and a page's list of
\* annotations is as long as the number of annotations created on that page
\* since the session started.
C1_OneRevisionAndCreationCount ==
    /\ \A id \in DOMAIN revision_history : Len(revision_history[id]) = 1
    /\ \A p \in PageIndices : Len(AnnotationsOf(p)) = created[p]
    /\ DOMAIN annotations \subseteq PageIndices

\* C1's case: two annotations were created on one page.
C1_Witness ==
    \E p \in PageIndices :
        /\ created[p] = 2
        /\ Len(AnnotationsOf(p)) = 2
        /\ \A i \in 1..2 : Len(revision_history[AnnotationsOf(p)[i].id]) = 1

\* The user can press this button: the last run rendered it, and no run is
\* under way or requested.
CanPress(button) ==
    vpc = "idle" /\ ~rerun_requested /\ button \in rendered

\* The session after the run that pressing a button starts, up to where
\* ScriptRun takes it.
AfterPress(button, sel, ann, msg, t_id, t_ts, ok) ==
    Rest(ScriptTop(Session, uploaded_file), button, sel, ann, msg, t_id, t_ts,
         ok)

\* C2: a Save Annotation whose selected text or annotation text is blank
\* changes no session state, publishes nothing, and reports a validation
\* error.
C2_BlankSaveChangesNothing ==
    CanPress("Save Annotation") =>
        \A sel \in SelectedTexts : \A ann \in AnnotationTexts :
            (Blank(sel) \/ Blank(ann)) =>
                LET s2 == AfterPress("Save Annotation", sel, ann, <<>>, now,
                                     now, TRUE)
                IN  /\ s2.keys = keys
                    /\ s2.current_page = current_page
                    /\ s2.annotations = annotations
                    /\ s2.revision_history = revision_history
                    /\ s2.collab_annotations = collab_annotations
                    /\ s2.collab_chat = collab_chat
                    /\ s2.pub_attempts = pub_attempts
                    /\ s2.relay = relay
                    /\ s2.created = created
                    /\ "ValidationError:annotation" \in s2.notices

\* C2's case: a blank Save Annotation has just been handled.
C2_Witness ==
    /\ "ValidationError:annotation" \in notices
    /\ \E p \in PageIndices : created[p] > 0

\* The last element of a sequence.
Last(seq) == seq[Len(seq)]

\* C3: when the publish of a valid Save Annotation or Send Message fails,
\* the event is in the local log all the same, a publish error is reported,
\* and the publish was attempted once only.
C3_PublishFailureKeepsLocalEvent ==
    /\ CanPress("Save Annotation") =>
         \A sel \in SelectedTexts : \A ann \in AnnotationTexts :
         \A t_id \in ReadingsFrom(now) : \A t_ts \in ReadingsFrom(t_id) :
            (~Blank(sel) /\ ~Blank(ann)) =>
                LET s2 == AfterPress("Save Annotation", sel, ann, <<>>, t_id,
                                     t_ts, FALSE)
                    a  == AnnotationData(current_page, sel, ann, t_id, t_ts,
                                         username)
                IN  /\ current_page \in DOMAIN s2.annotations
                    /\ s2.annotations[current_page]
                          = Append(AnnotationsOf(current_page), a)
                    /\ s2.revision_history[a.id] = << a >>
                    /\ "PublishError:annotation" \in s2.notices
                    /\ s2.pub_attempts = pub_attempts + 1
                    /\ s2.relay = relay
    /\ CanPress("Send Message") =>
         \A msg \in ChatTexts : \A t \in ReadingsFrom(now) :
            ~Blank(msg) =>
                LET s2 == AfterPress("Send Message", <<>>, <<>>, msg, t, t,
                                     FALSE)
                IN  /\ s2.collab_chat
                          = Append(collab_chat, ChatData(msg, t, username))
                    /\ "PublishError:chat" \in s2.notices
                    /\ s2.pub_attempts = pub_attempts + 1
                    /\ s2.relay = relay

\* C3's case: the publish of a chat message has just failed, after the
\* publish of an annotation.
C3_Witness ==
    /\ "PublishError:chat" \in notices
    /\ collab_chat # <<>>
    /\ Last(collab_chat).type = "chat"
    /\ pub_attempts = 2
    /\ \E p \in PageIndices : created[p] = 1

\* The "type" of the payload the listener receives next: "None" when the
\* payload is not a JSON object or has no such key.
IncomingType ==
    IF IsObject(Head(relay)) THEN Get(Head(relay).val, "type") ELSE "None"

\* C4: a received payload that parses to an event of type "annotation" adds
\* exactly that event to the end of collab_annotations and leaves collab_chat
\* alone; one of type "chat" adds exactly that event to the end of
\* collab_chat and leaves collab_annotations alone; with any other type, or
\* none, neither log changes its length.
C4_OnMessageAppendsByType ==
    [][OnMessage =>
         /\ IncomingType = "annotation" =>
                /\ collab_annotations'
                     = Append(collab_annotations, Head(relay).val)
                /\ collab_chat' = collab_chat
         /\ IncomingType = "chat" =>
                /\ collab_chat' = Append(collab_chat, Head(relay).val)
                /\ collab_annotations' = collab_annotations
         /\ IncomingType \notin {"annotation", "chat"} =>
                /\ Len(collab_annotations') = Len(collab_annotations)
                /\ Len(collab_chat') = Len(collab_chat)]_vars

\* C4's case: the listener has received alice's chat message and an event of
\* an unknown type, and the chat log holds the chat message only.
C4_Witness ==
    /\ peer_sent = 2
    /\ relay = <<>>
    /\ Len(collab_chat) = 1
    /\ collab_chat[1].user = <<"alice">>
    /\ collab_annotations = <<>>
    /\ lstate = "listening"
    /\ listener_notice = "none"

\* C5: a payload that does not parse is reported as a malformed event,
\* changes neither log, and leaves the listener connected; the well-formed
\* event that comes after it is appended.
C5_MalformedPayloadIsSkipped ==
    [][OnMessage =>
         /\ LoadsFails(Head(relay)) =>
                /\ listener_notice' = "MalformedEvent"
                /\ UNCHANGED << collab_annotations, collab_chat, keys >>
                /\ lstate' = "listening"
         /\ (listener_notice = "MalformedEvent"
               /\ IncomingType \in {"annotation", "chat"}) =>
                \/ collab_annotations'
                     = Append(collab_annotations, Head(relay).val)
                \/ collab_chat' = Append(collab_chat, Head(relay).val)]_vars

\* C5's case: after a malformed payload was reported, the listener received
\* and appended an event.
C5_Witness ==
    /\ listener_notice = "MalformedEvent"
    /\ appended_since_notice
    /\ lstate = "listening"
    /\ Len(collab_annotations) + Len(collab_chat) = 1

\* C6: a Send Message whose message is blank reports a validation error,
\* appends nothing to collab_chat, and publishes nothing.  (The handler
\* raises NameError instead of reporting the validation error.)
C6_BlankSendIsValidationError ==
    [][\A msg \in ChatTexts :
          (Blank(msg) /\ ClickSendMessage(msg))
          => /\ "ValidationError:chat" \in notices'
             /\ collab_chat' = collab_chat
             /\ UNCHANGED << pub_attempts, relay >>]_vars

\* The number of pages of the document that is loaded.
PageCount == ExtractPdfText(uploaded_file).len

\* A document is loaded, and the view has its page index.
DocumentLoaded ==
    uploaded_file.present /\ uploaded_file.ok /\ "current_page" \in keys

\* C7: whenever a document is loaded, the page index is at least 0 and less
\* than the document's number of pages.  (The index is not reset when a
\* shorter document replaces the one loaded.)
C7_PageIndexInRange ==
    DocumentLoaded => (0 <= current_page /\ current_page < PageCount)

\* C8: where the navigation buttons can be pressed, Previous Page at index
\* 0 leaves the index alone, Next Page at the last index leaves it alone,
\* and otherwise each moves the index by exactly one.  (Next Page leaves an
\* index beyond the last page alone.)
C8_NavigationMovesByOne ==
    (vpc = "idle" /\ ~rerun_requested /\ "Next Page" \in rendered) =>
        /\ PreviousPage(current_page)
              = IF current_page = 0 THEN current_page ELSE current_page - 1
        /\ NextPage(current_page, PageCount)
              = IF current_page = PageCount - 1 THEN current_page
                ELSE current_page + 1

\* C9: the first element of the revision history of every annotation created
\* is that annotation as it was created, also when two annotations are
\* created on one page at one clock reading.  (The second one's history
\* replaces the first one's.)
C9_FirstRevisionIsCreationSnapshot ==
    \A a \in SavedAnnotations :
        /\ a.id \in DOMAIN revision_history
        /\ revision_history[a.id][1] = a

\* C10: the listener is started at most once in a session, and only by a
\* run that has an uploaded document and finds no ws_client_started key;
\* the key is never removed; a listener that has ended is not started
\* again.
C10_ListenerStartedAtMostOnce ==
    /\ [](listener_starts <= 1)
    /\ [][/\ listener_starts' # listener_starts =>
                /\ listener_starts' = listener_starts + 1
                /\ uploaded_file'.present
                /\ "ws_client_started" \notin keys
                /\ "ws_client_started" \in keys'
          /\ "ws_client_started" \in keys => "ws_client_started" \in keys'
          /\ lstate = "ended" => lstate' = "ended"]_vars

\* C10's case: the listener was started and has ended, and a document of
\* two pages is loaded and shown at its second page.
C10_Witness ==
    /\ listener_starts = 1
    /\ lstate = "ended"
    /\ "ws_client_started" \in keys
    /\ DocumentLoaded
    /\ current_page = 1 /\ PageCount = 2
    /\ vpc = "idle"

\* The payload is an annotation or chat event this session authored.
OwnEvent(raw) ==
    /\ IsObject(raw)
    /\ Get(raw.val, "type") \in {"annotation", "chat"}
    /\ Get(raw.val, "user") = username

\* The events this session authored that the listener has received.
ReceivedOwnAnnotations ==
    { collab_annotations[i] : i \in
        { j \in 1..Len(collab_annotations) :
            OwnEvent(Dumps(collab_annotations[j])) } }

\* C11: an event this session authored is in its local state before it is
\* sent: no send was given an event not yet stored, every own event the
\* relay holds is in the local log of its kind, and every own annotation the
\* listener has received is in annotations and has a revision history.
C11_StoredBeforePublished ==
    /\ ~sent_unstored
    /\ \A i \in 1..Len(relay) :
          OwnEvent(relay[i]) =>
              IF relay[i].val.type = "chat"
              THEN \E k \in 1..Len(collab_chat) : collab_chat[k] = relay[i].val
              ELSE /\ relay[i].val \in SavedAnnotations
                   /\ relay[i].val.id \in DOMAIN revision_history
    /\ \A a \in ReceivedOwnAnnotations :
          a \in SavedAnnotations /\ a.id \in DOMAIN revision_history

\* C11's case: the listener has received an annotation of this session, and
\* the relay holds a chat message of this session.
C11_Witness ==
    /\ ReceivedOwnAnnotations # {}
    /\ relay # <<>>
    /\ OwnEvent(relay[1])
    /\ relay[1].val.type = "chat"
    /\ pub_attempts = 2

\* The sequence b starts with the sequence a.
IsPrefix(a, b) == Len(a) <= Len(b) /\ SubSeq(b, 1, Len(a)) = a

\* C12: collab_annotations and collab_chat only grow at their end: every
\* step of the listener and of the view leaves what either log held in
\* place.  (The view's assignment of the empty list, after it found the key
\* absent, drops what the listener appended in between.)
C12_LogsAppendOnly ==
    [][/\ IsPrefix(collab_annotations, collab_annotations')
       /\ IsPrefix(collab_chat, collab_chat')]_vars

\* The number of times the sequence holds x.
Count(seq, x) == Cardinality({ i \in 1..Len(seq) : seq[i] = x })

\* The chat log holds a message this session sent.
HoldsOwnChat == \E i \in 1..Len(collab_chat) : collab_chat[i].user = username

\* C13: when the listener receives a chat message this session sent, the
\* chat log holds the copy the handler appended and gets a second copy; and
\* once the chat log holds a message of this session, no step takes
\* anything out of it.
C13_ChatEchoIsKeptTwice ==
    [][/\ (OnMessage /\ OwnEvent(Head(relay))
            /\ Head(relay).val.type = "chat") =>
              /\ Count(collab_chat, Head(relay).val) >= 1
              /\ Count(collab_chat', Head(relay).val)
                    = Count(collab_chat, Head(relay).val) + 1
       /\ HoldsOwnChat => IsPrefix(collab_chat, collab_chat')]_vars

\* C13's case: the chat log holds a message of this session twice, the
\* second copy received by the listener, and a script run came after.
C13_Witness ==
    /\ \E i \in 1..Len(collab_chat) : \E j \in (i + 1)..Len(collab_chat) :
          /\ collab_chat[i] = collab_chat[j]
          /\ collab_chat[i].user = username
    /\ pub_attempts = 1
    /\ relay = <<>>
    /\ vpc = "idle" /\ ~rerun_requested

=============================================================================
